---- MODULE Spec2Model ----
(***************************************************************************)
(* A model of the EThree session of src/src/EThree.ts: the key lifecycle   *)
(* (register, rotatePrivateKey, restorePrivateKey, cleanup, backup and     *)
(* reset of the backup), the operations that need the local private key,   *)
(* and lookupPublicKeys.                                                   *)
(*                                                                         *)
(* Every method of the class is an async function.  A call is modelled as  *)
(* a record in a call slot; one action is the completion of one awaited    *)
(* call of a collaborator (directory, local key vault, backup vault, chunk *)
(* source) together with the synchronous code that runs up to the next     *)
(* await.  Each awaited call either returns or fails.  Calls in different  *)
(* slots interleave at their awaits, as promises do on one event loop.     *)
(***************************************************************************)
EXTENDS Integers, Sequences, FiniteSets, TLC

\* ------------------------------------------------------------------ bounds
MaxCalls == 2          \* calls of the session that may be pending at once
MaxInitCards == 2      \* records the directory may hold for the identity at start
MaxNewKeys == 2        \* key pairs generateKeys may hand out in one run

MaxFileSize == 3       \* bytes of the largest file given to encryptFile
ChunkSize == 2         \* options.chunkSize, in bytes
MaxIds == 3            \* identities in one lookupPublicKeys call
MaxRecs == 2           \* records the directory may hold for one identity

Calls == 1..MaxCalls
NoKey == 0
FirstNewKey == MaxInitCards + 1
LastNewKey == MaxInitCards + MaxNewKeys
OtherKey == LastNewKey + 1      \* the private key of another user
Passwords == {"p"}

\* ------------------------------------------------------------------- state
VARIABLES
    cards,      \* the directory's records of this identity
    localKey,   \* the private key in the local key vault, or NoKey
    backup,     \* the backup vault's entry: [key, pwd], key = NoKey when empty
    inProcess,  \* this[_inProcess]
    nextKey,    \* the next key pair generateKeys returns
    calls,      \* the call in each slot
    lk          \* one lookupPublicKeys call

vars == <<cards, localKey, backup, inProcess, nextKey, calls, lk>>

LifecycleOps == {"register", "rotatePrivateKey"}

\* Crypto provider: the public key of a private key (injective, never the key itself).
extractPublicKey(k) == 0 - k

\* A record of the directory.
Card(id, pk, prev) == [id |-> id, publicKey |-> pk, previousCardId |-> prev]

RECURSIVE SortedSeq(_)
SortedSeq(S) ==
    IF S = {} THEN <<>>
    ELSE LET m == CHOOSE x \in S : \A y \in S : x <= y
         IN <<m>> \o SortedSeq(S \ {m})

\* cardManager.searchCards(identity): the records no other record supersedes.
LiveCards == {c \in cards : ~ \E d \in cards : d.previousCardId = c.id}
searchCards == SortedSeq({c.id : c \in LiveCards})

\* cardManager.publishCard: a new record, retiring previousCardId when given.
publishCard(kp, prev) == cards \cup {Card(kp, extractPublicKey(kp), prev)}

NoBackup == [key |-> NoKey, pwd |-> ""]
NoCard == NoKey            \* previousCardId of a record that supersedes none

\* errors.ts: throws the error of a call that overlaps another lifecycle call.
throwIllegalInvocationError(method) == "IllegalInvocationError"

ExternalErrors == {"DirectoryError", "LocalVaultError", "BackupVaultError",
                   "KeyEntryAlreadyExistsError", "ChunkSourceError"}

\* A payload or an envelope.  form is "buffer", or the encoding of a string:
\* "utf8" or "base64".  An envelope has a signer (the private key that signed),
\* the content the signature was made over (sealed) and the recipients' public
\* keys; a payload has none of them.
Data(form, body, signer, rcpts, sealed) ==
    [form |-> form, body |-> body, signer |-> signer, rcpts |-> rcpts, sealed |-> sealed]
Payload(form, body) == Data(form, body, NoKey, <<>>, 0)
NoData == Payload("none", 0)
isString(d) == d.form \in {"utf8", "base64"}

\* The publicKeys argument of encrypt and encryptFile: absent, one public key, or
\* a LookupResult (keys holds its values in insertion order).
PubArg(shape, keys) == [shape |-> shape, keys |-> keys]
NoArg == PubArg("null", <<>>)

\* A File or a Blob.  named: a File (has a name); sig: the signature embedded in
\* an encrypted file is present; type: its declared content type.
FileRec(size, named, signer, rcpts, sig, type) ==
    [size |-> size, named |-> named, signer |-> signer, rcpts |-> rcpts, sig |-> sig,
     type |-> type]
NoFile == FileRec(0, FALSE, NoKey, <<>>, FALSE, "")

\* A call of a method of EThree.  Beside the method's variables: effects, the
\* collaborator calls it has made; log, the calls it has made to the streaming
\* signer, cipher, decipher and verifier and the progress snapshots it has
\* reported, in order; made and freed, the streaming objects it has created and
\* disposed; cancelled, the caller has raised the signal it passed in options;
\* thrown, the error a callback given to processFile has thrown.
IdleCall == [op |-> "none", pc |-> "idle", gotCards |-> FALSE, cardsRes |-> <<>>,
             gotKey |-> FALSE, keyRes |-> NoKey, kp |-> NoKey, pwd |-> "",
             result |-> "", effects |-> {},
             msg |-> NoData, arg |-> NoArg, pk |-> NoKey, publicKey |-> NoKey,
             out |-> NoData,
             file |-> NoFile, off |-> 0, outFile |-> NoFile,
             publicKeysArray |-> <<>>, isVerified |-> "none",
             log |-> <<>>, made |-> {}, freed |-> {}, cancelled |-> FALSE,
             thrown |-> ""]

NewCall(op) == [IdleCall EXCEPT !.op = op]
Done(r, res) == [r EXCEPT !.pc = "done", !.result = res]
Did(r, e) == [r EXCEPT !.effects = @ \cup {e}]
InFlight(c) == calls[c].pc \notin {"idle", "done"}

\* One call to a streaming object, or one progress snapshot (ev is then the
\* snapshot's state); arg is the byte offset or the key that was passed.
Event(ev, arg) == [ev |-> ev, arg |-> arg]
Logged(r, evs) == [r EXCEPT !.log = @ \o evs]

\* Call c is at position pc and takes its next step.  A settled call is handed
\* to its caller first: Return changes nothing but its own slot and no other
\* step reads a settled slot, so every behaviour of the directory, the vaults
\* and the guard is still there.
Unsettled == \A d \in Calls : calls[d].pc # "done"
At(c, pc) == Unsettled /\ calls[c].pc = pc

\* ------------------------------------------------ lookupPublicKeys: its data
Identities == {"a", "b", "c"}
RECURSIVE SeqsUpTo(_)
SeqsUpTo(n) ==
    IF n = 0 THEN {<<>>}
    ELSE LET shorter == SeqsUpTo(n - 1)
         IN shorter \cup {Append(q, i) : q \in {x \in shorter : Len(x) = n - 1}, i \in Identities}
IdentityLists == SeqsUpTo(MaxIds)

\* The records of a directory that holds n[i] records for identity i.
DirCards(n) == {[identity |-> i, publicKey |-> <<i, j>>] : i \in Identities, j \in 1..MaxRecs}
DirectoryOf(n) == {cd \in DirCards(n) : cd.publicKey[2] <= n[cd.identity]}
NoEntries == [i \in {} |-> [publicKey |-> <<>>, error |-> ""]]

LkIdleWith(dir) ==
    [pc |-> "idle", dir |-> dir, identities |-> <<>>, scalar |-> FALSE,
     searches |-> 0, result |-> "", value |-> NoEntries, key |-> <<>>]
LkIdle == LkIdleWith({})

Init ==
    /\ \E n \in 0..MaxInitCards : cards = {Card(i, extractPublicKey(i), NoKey) : i \in 1..n}
    /\ localKey \in {NoKey, 1}
    /\ backup \in {NoBackup, [key |-> 1, pwd |-> "p"]}
    /\ inProcess = FALSE
    /\ nextKey = FirstNewKey
    /\ calls = [c \in Calls |-> IdleCall]
    /\ lk = LkIdle

\* A guard that is released on success only (no finally).
ResumeNoFinally(c, r) ==
    /\ calls' = [calls EXCEPT ![c] = r]
    /\ nextKey' = IF r.kp # calls[c].kp THEN nextKey + 1 ELSE nextKey
    /\ inProcess' = IF r.pc = "done" /\ r.op \in LifecycleOps /\ r.result = "ok"
                      THEN FALSE ELSE inProcess

\* The finally block of register and rotatePrivateKey, and the bookkeeping of a
\* step: the slot takes record r, generateKeys advances when r holds a new key
\* pair, and the guard is released when a call that holds it settles.
Resume(c, r) ==
    /\ calls' = [calls EXCEPT ![c] = r]
    /\ nextKey' = IF r.kp # calls[c].kp THEN nextKey + 1 ELSE nextKey
    /\ inProcess' = IF r.pc = "done" /\ r.op \in LifecycleOps THEN FALSE ELSE inProcess

\* ---------------------------------------------------------------- register
\* A register that does not look at the guard.
RegisterStartUnguarded(c) ==
    /\ At(c, "idle")
    /\ nextKey <= LastNewKey
    /\ inProcess' = TRUE
    /\ calls' = [calls EXCEPT ![c] =
            [NewCall("register") EXCEPT !.pc = "await", !.effects = {"search", "load"}]]
    /\ UNCHANGED <<cards, localKey, backup, nextKey, lk>>

\* A register whose guard check sits inside the try, so that the finally block
\* of a rejected call frees the guard.
RegisterStartRejectClears(c) ==
    /\ At(c, "idle")
    /\ nextKey <= LastNewKey
    /\ IF inProcess
         THEN /\ calls' = [calls EXCEPT ![c] =
                    Done(NewCall("register"), throwIllegalInvocationError("register"))]
              /\ inProcess' = FALSE
         ELSE /\ inProcess' = TRUE
              /\ calls' = [calls EXCEPT ![c] =
                    [NewCall("register") EXCEPT !.pc = "await", !.effects = {"search", "load"}]]
    /\ UNCHANGED <<cards, localKey, backup, nextKey, lk>>

RegisterStart(c) ==
    /\ At(c, "idle")
    /\ nextKey <= LastNewKey
    /\ IF inProcess
         THEN /\ calls' = [calls EXCEPT ![c] =
                    Done(NewCall("register"), throwIllegalInvocationError("register"))]
              /\ UNCHANGED inProcess
         ELSE /\ inProcess' = TRUE
              /\ calls' = [calls EXCEPT ![c] =
                    [NewCall("register") EXCEPT !.pc = "await", !.effects = {"search", "load"}]]
    /\ UNCHANGED <<cards, localKey, backup, nextKey, lk>>

\* `cards.length >= 0` in place of `cards.length > 0`.
RegisterCheckOffByOne(r) ==
    IF Len(r.cardsRes) > 1 THEN Done(r, "MultipleCardsError")
    ELSE IF Len(r.cardsRes) >= 0 THEN Done(r, "IdentityAlreadyExistsError")
    ELSE Did([r EXCEPT !.pc = "publish", !.kp = nextKey], "publish")

\* The two record-count checks in the other order.
RegisterCheckSwapped(r) ==
    IF Len(r.cardsRes) > 0 THEN Done(r, "IdentityAlreadyExistsError")
    ELSE IF Len(r.cardsRes) > 1 THEN Done(r, "MultipleCardsError")
    ELSE IF r.keyRes # NoKey /\ Len(r.cardsRes) = 0
         THEN Did([r EXCEPT !.pc = "reset"], "reset")
    ELSE Did([r EXCEPT !.pc = "publish", !.kp = nextKey], "publish")

\* register that leaves a stale local key where it is.
RegisterCheckNoReset(r) ==
    IF Len(r.cardsRes) > 1 THEN Done(r, "MultipleCardsError")
    ELSE IF Len(r.cardsRes) > 0 THEN Done(r, "IdentityAlreadyExistsError")
    ELSE Did([r EXCEPT !.pc = "publish", !.kp = nextKey], "publish")

\* The checks after Promise.all, up to the next await.
RegisterCheck(r) ==
    IF Len(r.cardsRes) > 1 THEN Done(r, "MultipleCardsError")
    ELSE IF Len(r.cardsRes) > 0 THEN Done(r, "IdentityAlreadyExistsError")
    ELSE IF r.keyRes # NoKey /\ Len(r.cardsRes) = 0
         THEN Did([r EXCEPT !.pc = "reset"], "reset")
    ELSE Did([r EXCEPT !.pc = "publish", !.kp = nextKey], "publish")

\* --------------------------------------------------------- rotatePrivateKey
\* A rotatePrivateKey that does not look at the guard.
RotateStartUnguarded(c) ==
    /\ At(c, "idle")
    /\ nextKey <= LastNewKey
    /\ inProcess' = TRUE
    /\ calls' = [calls EXCEPT ![c] =
            [NewCall("rotatePrivateKey") EXCEPT !.pc = "await",
                                                !.effects = {"search", "load"}]]
    /\ UNCHANGED <<cards, localKey, backup, nextKey, lk>>

RotateStart(c) ==
    /\ At(c, "idle")
    /\ nextKey <= LastNewKey
    /\ IF inProcess
         THEN /\ calls' = [calls EXCEPT ![c] =
                    Done(NewCall("rotatePrivateKey"),
                         throwIllegalInvocationError("rotatePrivateKey"))]
              /\ UNCHANGED inProcess
         ELSE /\ inProcess' = TRUE
              /\ calls' = [calls EXCEPT ![c] =
                    [NewCall("rotatePrivateKey") EXCEPT !.pc = "await",
                                                        !.effects = {"search", "load"}]]
    /\ UNCHANGED <<cards, localKey, backup, nextKey, lk>>

\* The local key checked before the records are counted.
RotateCheckKeyFirst(r) ==
    IF r.keyRes # NoKey THEN Done(r, "PrivateKeyAlreadyExistsError")
    ELSE IF Len(r.cardsRes) = 0 THEN Done(r, "RegisterRequiredError")
    ELSE IF Len(r.cardsRes) > 1 THEN Done(r, "MultipleCardsError")
    ELSE Did([r EXCEPT !.pc = "publish", !.kp = nextKey], "publish")

RotateCheck(r) ==
    IF Len(r.cardsRes) = 0 THEN Done(r, "RegisterRequiredError")
    ELSE IF Len(r.cardsRes) > 1 THEN Done(r, "MultipleCardsError")
    ELSE IF r.keyRes # NoKey THEN Done(r, "PrivateKeyAlreadyExistsError")
    ELSE Did([r EXCEPT !.pc = "publish", !.kp = nextKey], "publish")

\* Promise.all: the function goes on when both reads have resolved.
AwaitResolved(c, r) ==
    IF r.gotCards /\ r.gotKey
      THEN Resume(c, IF r.op = "register" THEN RegisterCheck(r) ELSE RotateCheck(r))
      ELSE Resume(c, r)

SearchReturns(c) ==
    /\ At(c, "await")
    /\ ~ calls[c].gotCards
    /\ \E ok \in BOOLEAN :
         IF ok
           THEN AwaitResolved(c, [calls[c] EXCEPT !.gotCards = TRUE, !.cardsRes = searchCards])
           ELSE Resume(c, Done(calls[c], "DirectoryError"))
    /\ UNCHANGED <<cards, localKey, backup, lk>>

LoadReturns(c) ==
    /\ At(c, "await")
    /\ ~ calls[c].gotKey
    /\ \E ok \in BOOLEAN :
         IF ok
           THEN AwaitResolved(c, [calls[c] EXCEPT !.gotKey = TRUE, !.keyRes = localKey])
           ELSE Resume(c, Done(calls[c], "LocalVaultError"))
    /\ UNCHANGED <<cards, localKey, backup, lk>>

\* register: resetLocalPrivateKey returns, then generateKeys and the publish call.
RegisterResetReturns(c) ==
    /\ At(c, "reset")
    /\ \E ok \in BOOLEAN :
         IF ok
           THEN /\ localKey' = NoKey
                /\ Resume(c, Did([calls[c] EXCEPT !.pc = "publish", !.kp = nextKey], "publish"))
           ELSE /\ UNCHANGED localKey
                /\ Resume(c, Done(calls[c], "LocalVaultError"))
    /\ UNCHANGED <<cards, backup, lk>>

\* A rotate that publishes without previousCardId.
PublishReturnsNoPrevious(c) ==
    /\ At(c, "publish")
    /\ \E ok \in BOOLEAN :
         IF ok
           THEN /\ cards' = publishCard(calls[c].kp, NoCard)
                /\ Resume(c, Did([calls[c] EXCEPT !.pc = "save"], "save"))
           ELSE /\ UNCHANGED cards
                /\ Resume(c, Done(calls[c], "DirectoryError"))
    /\ UNCHANGED <<localKey, backup, lk>>

\* _publishCard returns: register passes no previousCardId, rotate cards[0].id.
PublishReturns(c) ==
    /\ At(c, "publish")
    /\ \E ok \in BOOLEAN :
         IF ok
           THEN /\ cards' = publishCard(calls[c].kp,
                                IF calls[c].op = "rotatePrivateKey"
                                  THEN calls[c].cardsRes[1] ELSE NoCard)
                /\ Resume(c, Did([calls[c] EXCEPT !.pc = "save"], "save"))
           ELSE /\ UNCHANGED cards
                /\ Resume(c, Done(calls[c], "DirectoryError"))
    /\ UNCHANGED <<localKey, backup, lk>>

\* Local key vault: save refuses to replace a key that is there.
savePrivateKeyLocal(k) ==
    IF localKey # NoKey THEN [err |-> "KeyEntryAlreadyExistsError", key |-> localKey]
    ELSE [err |-> "", key |-> k]

SaveReturns(c) ==
    /\ At(c, "save")
    /\ \E ok \in BOOLEAN :
         IF ok
           THEN LET s == savePrivateKeyLocal(calls[c].kp)
                IN /\ localKey' = s.key
                   /\ Resume(c, Done(calls[c], IF s.err = "" THEN "ok" ELSE s.err))
           ELSE /\ UNCHANGED localKey
                /\ Resume(c, Done(calls[c], "LocalVaultError"))
    /\ UNCHANGED <<cards, backup, lk>>

\* -------------------------------------------------------- restorePrivateKey
RestoreStart(c) ==
    /\ At(c, "idle")
    /\ \E pwd \in Passwords :
         calls' = [calls EXCEPT ![c] =
              [NewCall("restorePrivateKey") EXCEPT !.pc = "fetch", !.pwd = pwd,
                                                   !.effects = {"fetch"}]]
    /\ UNCHANGED <<cards, localKey, backup, inProcess, nextKey, lk>>

\* The key loader fetches and decrypts the backup stored under the password.
RestoreFetchReturns(c) ==
    /\ At(c, "fetch")
    /\ \E ok \in BOOLEAN :
         IF ok /\ backup.key # NoKey /\ backup.pwd = calls[c].pwd
           THEN Resume(c, Did([calls[c] EXCEPT !.pc = "install", !.gotKey = TRUE,
                                                !.keyRes = backup.key], "save"))
           ELSE Resume(c, Done(calls[c], "BackupVaultError"))
    /\ UNCHANGED <<cards, localKey, backup, lk>>

\* A catch that rethrows whatever it caught.
RestoreCatchRethrow(e) == e

\* The catch of restorePrivateKey.
RestoreCatch(e) ==
    IF e = "KeyEntryAlreadyExistsError" THEN "PrivateKeyAlreadyExistsError" ELSE e

RestoreInstallReturns(c) ==
    /\ At(c, "install")
    /\ \E ok \in BOOLEAN :
         IF ok
           THEN LET s == savePrivateKeyLocal(calls[c].keyRes)
                IN /\ localKey' = s.key
                   /\ Resume(c, Done(calls[c], IF s.err = "" THEN "ok" ELSE RestoreCatch(s.err)))
           ELSE /\ UNCHANGED localKey
                /\ Resume(c, Done(calls[c], RestoreCatch("LocalVaultError")))
    /\ UNCHANGED <<cards, backup, lk>>

\* ------------------------------------------------------------------ cleanup
CleanupStart(c) ==
    /\ At(c, "idle")
    /\ calls' = [calls EXCEPT ![c] =
            [NewCall("cleanup") EXCEPT !.pc = "cleanup", !.effects = {"reset"}]]
    /\ UNCHANGED <<cards, localKey, backup, inProcess, nextKey, lk>>

CleanupReturns(c) ==
    /\ At(c, "cleanup")
    /\ \E ok \in BOOLEAN :
         IF ok
           THEN /\ localKey' = NoKey
                /\ Resume(c, Done(calls[c], "ok"))
           ELSE /\ UNCHANGED localKey
                /\ Resume(c, Done(calls[c], "LocalVaultError"))
    /\ UNCHANGED <<cards, backup, lk>>

\* ---------------------------------------------------- resetPrivateKeyBackup
\* pwd = "" is the call without a password, which resets the whole storage.
ResetBackupStart(c) ==
    /\ At(c, "idle")
    /\ \E pwd \in Passwords \cup {""} :
         calls' = [calls EXCEPT ![c] =
              [NewCall("resetPrivateKeyBackup") EXCEPT !.pc = "resetBackup", !.pwd = pwd,
                                                       !.effects = {"delete"}]]
    /\ UNCHANGED <<cards, localKey, backup, inProcess, nextKey, lk>>

ResetBackupReturns(c) ==
    /\ At(c, "resetBackup")
    /\ \E ok \in BOOLEAN :
         IF ok /\ (calls[c].pwd = "" \/ (backup.key # NoKey /\ backup.pwd = calls[c].pwd))
           THEN /\ backup' = NoBackup
                /\ Resume(c, Done(calls[c], "ok"))
           ELSE /\ UNCHANGED backup
                /\ Resume(c, Done(calls[c], "BackupVaultError"))
    /\ UNCHANGED <<cards, localKey, lk>>

\* --------------------------------------------------------- crypto provider
Min(a, b) == IF a < b THEN a ELSE b
InSeq(x, q) == \E i \in 1..Len(q) : q[i] = x

\* exportPublicKey(key).toString('base64'): the canonical text of a public key.
exportPublicKey(pk) == <<"base64", pk>>

\* Signs the message (a string is read as utf8) and encrypts it for publicKeys.
signThenEncrypt(message, privateKey, publicKeys) ==
    Data("buffer", message.body, privateKey, publicKeys, message.body)

\* Decrypts for a recipient (a string is read as base64), then verifies the
\* signature against publicKey.
decryptThenVerify(message, privateKey, publicKey) ==
    IF message.form = "utf8" \/ ~ InSeq(extractPublicKey(privateKey), message.rcpts)
      THEN [err |-> "DecryptionError", data |-> NoData]
    ELSE IF extractPublicKey(message.signer) # publicKey \/ message.sealed # message.body
      THEN [err |-> "IntegrityCheckFailedError", data |-> NoData]
    ELSE [err |-> "", data |-> Payload("buffer", message.body)]

\* Buffer.toString(encoding): the content as a string in that encoding.
toString(d, encoding) == [d EXCEPT !.form = encoding]

\* _isOwnPublicKeysIncluded and _addOwnPublicKey.
isOwnPublicKeysIncluded(ownPublicKey, publicKeys) ==
    \E i \in 1..Len(publicKeys) : exportPublicKey(publicKeys[i]) = exportPublicKey(ownPublicKey)

\* _addOwnPublicKey that pushes the own key without looking for it.
addOwnPublicKeyAlways(privateKey, publicKeys) ==
    Append(publicKeys.keys, extractPublicKey(privateKey))

addOwnPublicKey(privateKey, publicKeys) ==
    LET argument == publicKeys.keys
        ownPublicKey == extractPublicKey(privateKey)
    IN IF ~ isOwnPublicKeysIncluded(ownPublicKey, argument)
         THEN Append(argument, ownPublicKey)
         ELSE argument

\* ------------------------------------------------- inputs of the key users
OtherPub == extractPublicKey(OtherKey)
Messages == {Payload("utf8", 1), Payload("buffer", 2)}
PubArgs == {NoArg, PubArg("key", <<OtherPub>>),
            PubArg("map", <<OtherPub, extractPublicKey(1)>>),
            PubArg("map", <<extractPublicKey(1), extractPublicKey(1)>>)}
SenderArgs == {NoKey, extractPublicKey(1), OtherPub}
FileTypes == {"", "text/plain"}
PlainFiles == {FileRec(n, named, NoKey, <<>>, FALSE, type) : type \in FileTypes,
                   n \in {0, ChunkSize, MaxFileSize}, named \in BOOLEAN}
EncFiles == {FileRec(n + 1, named, s, <<extractPublicKey(1)>>, sig, type) :
                   type \in FileTypes,
                   n \in {ChunkSize, MaxFileSize},
                   named \in BOOLEAN, s \in {1, OtherKey}, sig \in BOOLEAN}

\* --------------------------------------------------------- backupPrivateKey
BackupStart(c) ==
    /\ At(c, "idle")
    /\ \E pwd \in Passwords :
         calls' = [calls EXCEPT ![c] =
              [NewCall("backupPrivateKey") EXCEPT !.pc = "load", !.pwd = pwd,
                                                  !.effects = {"load"}]]
    /\ UNCHANGED <<cards, localKey, backup, inProcess, nextKey, lk>>

\* backupPrivateKey without its check of the loaded key.
BackupCheckNoGuard(r) == Did([r EXCEPT !.pc = "upload"], "upload")

BackupCheck(r) ==
    IF r.keyRes = NoKey THEN Done(r, "RegisterRequiredError")
    ELSE Did([r EXCEPT !.pc = "upload"], "upload")

\* savePrivateKeyRemote returns: the vault keeps one backup and replaces none.
BackupUploadReturns(c) ==
    /\ At(c, "upload")
    /\ \E ok \in BOOLEAN :
         IF ~ ok THEN /\ UNCHANGED backup
                      /\ Resume(c, Done(calls[c], "BackupVaultError"))
         ELSE IF backup.key # NoKey
           THEN /\ UNCHANGED backup
                /\ Resume(c, Done(calls[c], "PrivateKeyAlreadyExistsError"))
           ELSE /\ backup' = [key |-> calls[c].keyRes, pwd |-> calls[c].pwd]
                /\ Resume(c, Done(calls[c], "ok"))
    /\ UNCHANGED <<cards, localKey, lk>>

\* ------------------------------------------------------- encrypt and decrypt
EncryptStart(c) ==
    /\ At(c, "idle")
    /\ \E m \in Messages, a \in PubArgs :
         calls' = [calls EXCEPT ![c] =
              [NewCall("encrypt") EXCEPT !.pc = "load", !.msg = m, !.arg = a,
                                         !.effects = {"load"}]]
    /\ UNCHANGED <<cards, localKey, backup, inProcess, nextKey, lk>>

EncryptBody(r) ==
    IF r.keyRes = NoKey THEN Done(r, "RegisterRequiredError")
    ELSE LET publicKeysArray == addOwnPublicKey(r.keyRes, r.arg)
             res == signThenEncrypt(r.msg, r.keyRes, publicKeysArray)
         IN Done(Did([r EXCEPT !.publicKeysArray = publicKeysArray,
                               !.out = IF isString(r.msg) THEN toString(res, "base64")
                                       ELSE res],
                     "crypto"), "ok")

\* The envelopes a session may be handed: what encrypt returns to the holder of
\* key 1 or of OtherKey, and the same with one byte changed on the way.
EncryptOut(m, k, a) ==
    EncryptBody([NewCall("encrypt") EXCEPT !.msg = m, !.arg = a, !.keyRes = k]).out
Tampered(e) == [e EXCEPT !.body = e.body + 2]
Sent == {EncryptOut(m, 1, a) : m \in Messages, a \in PubArgs}
          \cup {EncryptOut(m, OtherKey, a) :
                   m \in Messages, a \in {NoArg, PubArg("key", <<extractPublicKey(1)>>)}}
Envelopes == Sent \cup {Tampered(e) : e \in Sent}

DecryptStart(c) ==
    /\ At(c, "idle")
    /\ \E m \in Envelopes, pk \in SenderArgs :
         calls' = [calls EXCEPT ![c] =
              [NewCall("decrypt") EXCEPT !.pc = "load", !.msg = m, !.pk = pk,
                                         !.effects = {"load"}]]
    /\ UNCHANGED <<cards, localKey, backup, inProcess, nextKey, lk>>

\* decrypt that verifies against the session's own key whatever key it is given.
DecryptBodyOwnKey(r) ==
    IF r.keyRes = NoKey THEN Done(r, "RegisterRequiredError")
    ELSE LET publicKey == extractPublicKey(r.keyRes)
             res == decryptThenVerify(r.msg, r.keyRes, publicKey)
         IN IF res.err # "" THEN Done(Did([r EXCEPT !.publicKey = publicKey], "crypto"),
                                      res.err)
            ELSE Done(Did([r EXCEPT !.publicKey = publicKey,
                                    !.out = IF isString(r.msg)
                                            THEN toString(res.data, "utf8") ELSE res.data],
                          "crypto"), "ok")

\* decrypt that encodes a string result as encrypt does.
DecryptBodyBase64(r) ==
    IF r.keyRes = NoKey THEN Done(r, "RegisterRequiredError")
    ELSE LET publicKey == IF r.pk = NoKey THEN extractPublicKey(r.keyRes) ELSE r.pk
             res == decryptThenVerify(r.msg, r.keyRes, publicKey)
         IN IF res.err # "" THEN Done(Did([r EXCEPT !.publicKey = publicKey], "crypto"),
                                      res.err)
            ELSE Done(Did([r EXCEPT !.publicKey = publicKey,
                                    !.out = IF isString(r.msg)
                                            THEN toString(res.data, "base64") ELSE res.data],
                          "crypto"), "ok")

DecryptBody(r) ==
    IF r.keyRes = NoKey THEN Done(r, "RegisterRequiredError")
    ELSE LET publicKey == IF r.pk = NoKey THEN extractPublicKey(r.keyRes) ELSE r.pk
             res == decryptThenVerify(r.msg, r.keyRes, publicKey)
         IN IF res.err # "" THEN Done(Did([r EXCEPT !.publicKey = publicKey], "crypto"),
                                      res.err)
            ELSE Done(Did([r EXCEPT !.publicKey = publicKey,
                                    !.out = IF isString(r.msg)
                                            THEN toString(res.data, "utf8") ELSE res.data],
                          "crypto"), "ok")

\* -------------------------------------------------- encryptFile, decryptFile
EncryptFileStart(c) ==
    /\ At(c, "idle")
    /\ \E f \in PlainFiles, a \in PubArgs :
         calls' = [calls EXCEPT ![c] =
              [NewCall("encryptFile") EXCEPT !.pc = "load", !.file = f, !.arg = a,
                                             !.effects = {"load"}]]
    /\ UNCHANGED <<cards, localKey, backup, inProcess, nextKey, lk>>

\* encryptFile that creates and starts the cipher without awaiting the signature.
EncryptFileCheckCipherFirst(r) ==
    IF r.keyRes = NoKey THEN Done(r, "RegisterRequiredError")
    ELSE Did(Logged([r EXCEPT !.pc = "sign", !.off = 0,
                              !.publicKeysArray = addOwnPublicKey(r.keyRes, r.arg),
                              !.made = @ \cup {"signer", "cipher"}],
                    <<Event("signer.create", 0), Event("cipher.create", 0),
                      Event("cipher.start", 0)>>), "chunk")

\* Up to the first processFile: the signer is created, the sign pass starts and
\* reads its first chunk.
EncryptFileCheck(r) ==
    IF r.keyRes = NoKey THEN Done(r, "RegisterRequiredError")
    ELSE Did(Logged([r EXCEPT !.pc = "sign", !.off = 0,
                              !.publicKeysArray = addOwnPublicKey(r.keyRes, r.arg),
                              !.made = @ \cup {"signer"}],
                    <<Event("signer.create", 0)>>), "chunk")

DecryptFileStart(c) ==
    /\ At(c, "idle")
    /\ \E f \in EncFiles, pk \in SenderArgs :
         calls' = [calls EXCEPT ![c] =
              [NewCall("decryptFile") EXCEPT !.pc = "load", !.file = f, !.pk = pk,
                                             !.effects = {"load"}]]
    /\ UNCHANGED <<cards, localKey, backup, inProcess, nextKey, lk>>

DecryptFileCheck(r) ==
    IF r.keyRes = NoKey THEN Done(r, "RegisterRequiredError")
    ELSE Did(Logged([r EXCEPT !.pc = "decrypt", !.off = 0,
                              !.publicKey = IF r.pk = NoKey THEN extractPublicKey(r.keyRes)
                                            ELSE r.pk,
                              !.made = @ \cup {"decipher"}],
                    <<Event("decipher.create", 0)>>), "chunk")

\* The code after `await loadLocalPrivateKey()` of each operation that uses the key.
AfterLoad(r) ==
    CASE r.op = "backupPrivateKey" -> BackupCheck(r)
      [] r.op = "encrypt" -> EncryptBody(r)
      [] r.op = "decrypt" -> DecryptBody(r)
      [] r.op = "encryptFile" -> EncryptFileCheck(r)
      [] r.op = "decryptFile" -> DecryptFileCheck(r)

KeyLoadReturns(c) ==
    /\ At(c, "load")
    /\ \E ok \in BOOLEAN :
         IF ok
           THEN Resume(c, AfterLoad([calls[c] EXCEPT !.gotKey = TRUE, !.keyRes = localKey]))
           ELSE Resume(c, Done(calls[c], "LocalVaultError"))
    /\ UNCHANGED <<cards, localKey, backup, lk>>

Passes == {"sign", "encrypt", "decrypt", "verify"}

\* The size of the blob the running pass reads.
PassSize(r) == IF r.pc = "verify" THEN r.outFile.size ELSE r.file.size

\* onFileProcess whose Encrypting and Verifying snapshots report the 0 that the
\* Signing and Decrypting snapshots carry in that field.
onFileProcessZero(r, offset) ==
    CASE r.pc = "sign" ->
            Logged(r, <<Event("Signing", offset), Event("signer.update", offset)>>)
      [] r.pc = "encrypt" ->
            Logged(r, <<Event("cipher.update", offset), Event("Encrypting", 0)>>)
      [] r.pc = "decrypt" ->
            Logged(r, <<Event("decipher.update", offset), Event("Decrypting", offset)>>)
      [] r.pc = "verify" ->
            Logged(r, <<Event("verifier.update", offset), Event("Verifying", 0)>>)

\* onFileProcess of each pass: the chunk goes to the pass's streaming object and
\* options.onProgress gets a snapshot with the offset processFile passed.
onFileProcess(r, offset) ==
    CASE r.pc = "sign" ->
            Logged(r, <<Event("Signing", offset), Event("signer.update", offset)>>)
      [] r.pc = "encrypt" ->
            Logged(r, <<Event("cipher.update", offset), Event("Encrypting", offset)>>)
      [] r.pc = "decrypt" ->
            Logged(r, <<Event("decipher.update", offset), Event("Decrypting", offset)>>)
      [] r.pc = "verify" ->
            Logged(r, <<Event("verifier.update", offset), Event("Verifying", offset)>>)

\* onFinish of the sign pass; the cipher is created with the awaited signature
\* and started, and the encrypt pass reads its first chunk.
SignFinish(r) ==
    Did(Logged([r EXCEPT !.pc = "encrypt", !.off = 0, !.made = @ \cup {"cipher"}],
               <<Event("signer.sign", r.keyRes), Event("cipher.create", 0),
                 Event("cipher.start", 0)>>), "chunk")

\* onFinish of the encrypt pass, and the File or Blob made of the chunks.
EncryptFinish(r) ==
    Done(Logged([r EXCEPT !.outFile = FileRec(r.file.size + 1, r.file.named, r.keyRes,
                                              r.publicKeysArray, TRUE, r.file.type)],
                <<Event("cipher.final", 0)>>), "ok")

\* onFinish of the decrypt pass that does not look at the signature it got.
DecryptFinishNoCheck(r) ==
    Did(Logged([r EXCEPT !.pc = "verify", !.off = 0,
                         !.freed = @ \cup {"decipher"},
                         !.made = @ \cup {"verifier"},
                         !.outFile = FileRec(r.file.size - 1, FALSE, NoKey, <<>>, FALSE,
                                                   r.file.type)],
               <<Event("decipher.final", 0), Event("decipher.getSignature", 0),
                 Event("decipher.dispose", 0), Event("verifier.create", 0)>>),
        "chunk")

\* onFinish of the decrypt pass; the verifier and the plaintext blob are made and
\* the verify pass reads its first chunk.  Without a signature onFinish throws.
\* The File made for a named input is overwritten by the Blob of the next
\* statement, so the plaintext is a Blob for either kind of input.
DecryptFinish(r) ==
    IF ~ r.file.sig
      THEN Logged([r EXCEPT !.thrown = "IntegrityCheckFailedError"],
                  <<Event("decipher.final", 0), Event("decipher.getSignature", 0)>>)
    ELSE Did(Logged([r EXCEPT !.pc = "verify", !.off = 0,
                              !.freed = @ \cup {"decipher"},
                              !.made = @ \cup {"verifier"},
                              !.outFile = FileRec(r.file.size - 1, FALSE, NoKey, <<>>, FALSE,
                                                   r.file.type)],
                    <<Event("decipher.final", 0), Event("decipher.getSignature", 0),
                      Event("decipher.dispose", 0), Event("verifier.create", 0)>>),
             "chunk")

\* The verifier's answer: the signature in the file is that of publicKey.
verify(r, publicKey) == extractPublicKey(r.file.signer) = publicKey

\* onFinish of the verify pass that returns the blob whatever the verifier said.
VerifyFinishUnchecked(r) ==
    LET isVerified == verify(r, r.publicKey)
    IN Done(Logged([r EXCEPT !.isVerified = IF isVerified THEN "true" ELSE "false"],
                   <<Event("verifier.verify", r.publicKey)>>), "ok")

\* onFinish of the verify pass, and the test of its result.
VerifyFinish(r) ==
    LET isVerified == verify(r, r.publicKey)
        v == Logged([r EXCEPT !.isVerified = IF isVerified THEN "true" ELSE "false"],
                    <<Event("verifier.verify", r.publicKey)>>)
    IN IF isVerified THEN Done(v, "ok")
       ELSE Done([v EXCEPT !.outFile = NoFile], "IntegrityCheckFailedError")

\* onFinish of each pass, and the code that follows the awaited promise.
PassFinish(r) ==
    CASE r.pc = "sign" -> SignFinish(r)
      [] r.pc = "encrypt" -> EncryptFinish(r)
      [] r.pc = "decrypt" -> DecryptFinish(r)
      [] r.pc = "verify" -> VerifyFinish(r)

\* processFile passes what a callback throws to onErrorCallback, which rejects
\* the promise the call awaits.
Caught(r) == IF r.thrown # "" THEN Done(r, r.thrown) ELSE r

\* processFile hands the next chunk to the pass, or the read fails.
ChunkReturns(c) ==
    /\ Unsettled
    /\ calls[c].pc \in Passes
    /\ \E ok \in BOOLEAN :
         LET r == calls[c]
             end == Min(r.off + ChunkSize, PassSize(r))
         IN IF ~ ok THEN Resume(c, Done([r EXCEPT !.outFile = NoFile], "ChunkSourceError"))
            ELSE IF r.pc = "decrypt" /\ ~ InSeq(extractPublicKey(r.keyRes), r.file.rcpts)
              THEN Resume(c, Done(Did(Logged(r, <<Event("decipher.update", end)>>), "decrypt"),
                                  "DecryptionError"))
            ELSE IF end = PassSize(r)
              THEN Resume(c, Caught(PassFinish(Did(onFileProcess([r EXCEPT !.off = end], end),
                                                   r.pc))))
            ELSE Resume(c, Did(onFileProcess([r EXCEPT !.off = end], end), r.pc))
    /\ UNCHANGED <<cards, localKey, backup, lk>>

\* encryptAbort of the example page: the caller raises the signal it passed in
\* the options of a running encryptFile or decryptFile.
Abort(c) ==
    /\ Unsettled
    /\ calls[c].op \in {"encryptFile", "decryptFile"}
    /\ calls[c].pc \in Passes
    /\ ~ calls[c].cancelled
    /\ calls' = [calls EXCEPT ![c].cancelled = TRUE]
    /\ UNCHANGED <<cards, localKey, backup, inProcess, nextKey, lk>>

\* --------------------------------------------------------- lookupPublicKeys
\* utils/array: whether a value occurs twice in the array.
hasDuplicates(q) == \E i, j \in 1..Len(q) : i < j /\ q[i] = q[j]

\* The search issued before the argument is checked.
LookupStartSearchFirst ==
    /\ lk.pc = "idle"
    /\ \E scalar \in BOOLEAN, ids \in IdentityLists :
         /\ scalar => Len(ids) = 1
         /\ LET r == [lk EXCEPT !.identities = ids, !.scalar = scalar, !.searches = @ + 1]
            IN lk' = IF Len(ids) = 0
                       THEN [r EXCEPT !.pc = "done", !.result = "EMPTY_ARRAY"]
                     ELSE IF hasDuplicates(ids)
                       THEN [r EXCEPT !.pc = "done", !.result = "DUPLICATE_IDENTITIES"]
                     ELSE [r EXCEPT !.pc = "search"]
    /\ UNCHANGED <<cards, localKey, backup, inProcess, nextKey, calls>>

\* The argument checks, before the search.
LookupStart ==
    /\ lk.pc = "idle"
    /\ \E scalar \in BOOLEAN, ids \in IdentityLists :
         /\ scalar => Len(ids) = 1
         /\ LET argument == ids
                r == [lk EXCEPT !.identities = ids, !.scalar = scalar]
            IN lk' = IF Len(argument) = 0
                       THEN [r EXCEPT !.pc = "done", !.result = "EMPTY_ARRAY"]
                     ELSE IF hasDuplicates(argument)
                       THEN [r EXCEPT !.pc = "done", !.result = "DUPLICATE_IDENTITIES"]
                     ELSE [r EXCEPT !.pc = "search", !.searches = @ + 1]
    /\ UNCHANGED <<cards, localKey, backup, inProcess, nextKey, calls>>

\* A loop that counts all the returned records, not those of the identity.
LookupClassifyUnfiltered(r, found) ==
    LET argument == r.identities
        ids == {argument[i] : i \in 1..Len(argument)}
        filteredCards(identity) == {cd \in found : cd.identity = identity}
        count(identity) == IF filteredCards(identity) = {} THEN 0 ELSE Cardinality(found)
        failed == {i \in ids : count(i) # 1}
        result == [i \in ids \ failed |->
                      [publicKey |-> (CHOOSE cd \in filteredCards(i) : TRUE).publicKey,
                       error |-> ""]]
        resultWithErrors == [i \in failed |->
                      [publicKey |-> <<>>,
                       error |-> IF count(i) = 0
                                   THEN "LookupNotFoundError" ELSE "MultipleCardsError"]]
        spread == [i \in failed \cup DOMAIN result |->
                      IF i \in DOMAIN result THEN result[i] ELSE resultWithErrors[i]]
    IN IF failed # {}
         THEN [r EXCEPT !.pc = "done", !.result = "LookupError", !.value = spread]
       ELSE IF ~ r.scalar
         THEN [r EXCEPT !.pc = "done", !.result = "map", !.value = result]
       ELSE [r EXCEPT !.pc = "done", !.result = "key", !.key = result[argument[1]].publicKey]

\* The loop over the argument and what the call returns or throws.
LookupClassify(r, found) ==
    LET argument == r.identities
        ids == {argument[i] : i \in 1..Len(argument)}
        filteredCards(identity) == {cd \in found : cd.identity = identity}
        failed == {i \in ids : Cardinality(filteredCards(i)) # 1}
        result == [i \in ids \ failed |->
                      [publicKey |-> (CHOOSE cd \in filteredCards(i) : TRUE).publicKey,
                       error |-> ""]]
        resultWithErrors == [i \in failed |->
                      [publicKey |-> <<>>,
                       error |-> IF Cardinality(filteredCards(i)) = 0
                                   THEN "LookupNotFoundError" ELSE "MultipleCardsError"]]
        spread == [i \in failed \cup DOMAIN result |->
                      IF i \in DOMAIN result THEN result[i] ELSE resultWithErrors[i]]
    IN IF failed # {}
         THEN [r EXCEPT !.pc = "done", !.result = "LookupError", !.value = spread]
       ELSE IF ~ r.scalar
         THEN [r EXCEPT !.pc = "done", !.result = "map", !.value = result]
       ELSE [r EXCEPT !.pc = "done", !.result = "key", !.key = result[argument[1]].publicKey]

\* searchCards(argument) returns the records of the requested identities; the
\* directory may add records of identities that were not asked for.
LookupSearchReturns ==
    /\ lk.pc = "search"
    /\ \E ok \in BOOLEAN :
         IF ok
           THEN \E extra \in SUBSET {cd \in lk.dir : ~ InSeq(cd.identity, lk.identities)} :
                  lk' = LookupClassify(lk, {cd \in lk.dir : InSeq(cd.identity, lk.identities)}
                                               \cup extra)
           ELSE lk' = [lk EXCEPT !.pc = "done", !.result = "DirectoryError"]
    /\ UNCHANGED <<cards, localKey, backup, inProcess, nextKey, calls>>

LookupReturn ==
    /\ lk.pc = "done"
    /\ lk' = LkIdleWith(lk.dir)
    /\ UNCHANGED <<cards, localKey, backup, inProcess, nextKey, calls>>

\* The caller takes the settled call's outcome; the slot is free again.
Return(c) ==
    /\ calls[c].pc = "done"
    /\ calls' = [calls EXCEPT ![c] = IdleCall]
    /\ UNCHANGED <<cards, localKey, backup, inProcess, nextKey, lk>>

\* The calls that read or change the directory and the local vault: register,
\* rotatePrivateKey, restorePrivateKey and cleanup, in any slot.
Next ==
    \E c \in Calls :
        \/ RegisterStart(c)
        \/ RotateStart(c)
        \/ SearchReturns(c)
        \/ LoadReturns(c)
        \/ RegisterResetReturns(c)
        \/ PublishReturns(c)
        \/ SaveReturns(c)
        \/ RestoreStart(c)
        \/ RestoreFetchReturns(c)
        \/ RestoreInstallReturns(c)
        \/ CleanupStart(c)
        \/ CleanupReturns(c)
        \/ Return(c)

Spec == Init /\ [][Next]_vars

\* The calls above together with backupPrivateKey and resetPrivateKeyBackup: the
\* operations that write to the directory, the local vault or the backup vault.
LifeNext ==
    \/ \E c \in Calls :
        \/ RegisterStart(c)
        \/ RotateStart(c)
        \/ SearchReturns(c)
        \/ LoadReturns(c)
        \/ RegisterResetReturns(c)
        \/ PublishReturns(c)
        \/ SaveReturns(c)
        \/ RestoreStart(c)
        \/ RestoreFetchReturns(c)
        \/ RestoreInstallReturns(c)
        \/ CleanupStart(c)
        \/ CleanupReturns(c)
        \/ Return(c)
    \/ \E c \in {1} :
        \/ BackupStart(c)
        \/ KeyLoadReturns(c)
        \/ BackupUploadReturns(c)
        \/ ResetBackupStart(c)
        \/ ResetBackupReturns(c)

LifeSpec == Init /\ [][LifeNext]_vars

\* The operations that use the local private key.  They share nothing but the
\* vault they read, so one slot runs them while the other slots run the calls
\* that change the vault.
KeyInit ==
    /\ cards = {Card(1, extractPublicKey(1), NoCard)}
    /\ localKey \in {NoKey, 1}
    /\ backup \in {NoBackup, [key |-> 1, pwd |-> "p"]}
    /\ inProcess = FALSE
    /\ nextKey = FirstNewKey
    /\ calls = [c \in Calls |-> IdleCall]
    /\ lk = LkIdle

KeyNext ==
    \/ \E c \in {1} :
        \/ BackupStart(c)
        \/ BackupUploadReturns(c)
        \/ EncryptStart(c)
        \/ DecryptStart(c)
        \/ EncryptFileStart(c)
        \/ DecryptFileStart(c)
        \/ KeyLoadReturns(c)
        \/ ChunkReturns(c)
        \/ Abort(c)
    \/ \E c \in Calls \ {1} :
        \/ CleanupStart(c)
        \/ CleanupReturns(c)
        \/ RestoreStart(c)
        \/ RestoreFetchReturns(c)
        \/ RestoreInstallReturns(c)
        \/ ResetBackupStart(c)
        \/ ResetBackupReturns(c)
    \/ \E c \in Calls : Return(c)

KeySpec == KeyInit /\ [][KeyNext]_vars

\* lookupPublicKeys over every directory of at most MaxRecs records per identity.
LookupInit ==
    /\ cards = {}
    /\ localKey = NoKey
    /\ backup = NoBackup
    /\ inProcess = FALSE
    /\ nextKey = FirstNewKey
    /\ calls = [c \in Calls |-> IdleCall]
    /\ \E n \in [Identities -> 0..MaxRecs] : lk = LkIdleWith(DirectoryOf(n))

LookupNext == LookupStart \/ LookupSearchReturns \/ LookupReturn

LookupSpec == LookupInit /\ [][LookupNext]_vars

\* ===================================================================== claims
\* A claim about an operation in some state is read for the runs in which the
\* collaborators the operation awaits answer: a failed read or write of the
\* directory or of a vault ends the call with the collaborator's error.

hasLocalPrivateKey == localKey # NoKey
Holder(c) == calls[c].op \in LifecycleOps /\ InFlight(c)
Settles(c) == calls[c].pc # "done" /\ calls'[c].pc = "done"
ReadsOnly(c) == calls[c].effects = {"search", "load"}
KeyOps == {"encrypt", "decrypt", "encryptFile", "decryptFile", "backupPrivateKey"}

\* C1: a register or rotatePrivateKey started while another such call is in
\* flight settles in the same step with the illegal-invocation error; it has
\* invoked no collaborator and nothing of the directory, the vaults or the guard
\* has changed.
C1_OverlappingCallRejected ==
    [][\A c \in Calls :
          (/\ calls[c].pc = "idle"
           /\ calls'[c].pc # "idle"
           /\ calls'[c].op \in LifecycleOps
           /\ \E d \in Calls \ {c} : Holder(d))
          => (/\ calls'[c].pc = "done"
              /\ calls'[c].result = "IllegalInvocationError"
              /\ calls'[c].effects = {}
              /\ UNCHANGED <<cards, localKey, backup, inProcess>>)]_vars

C1_Witness ==
    \E c, d \in Calls :
        /\ calls[d].op = "register" /\ calls[d].pc = "publish"
        /\ calls[c].op = "rotatePrivateKey"
        /\ calls[c].result = "IllegalInvocationError"

\* C2: the guard is held exactly while a register or rotatePrivateKey call that
\* acquired it is in flight: whichever way that call settles, the guard is free.
C2_GuardReleased == inProcess <=> \E c \in Calls : Holder(c)

C2_Witness ==
    \E c \in Calls :
        /\ calls[c].op = "register" /\ calls[c].pc = "done"
        /\ calls[c].result = "LocalVaultError" /\ "save" \in calls[c].effects
        /\ Card(calls[c].kp, extractPublicKey(calls[c].kp), NoCard) \in cards
        /\ ~ inProcess

\* C3: a register that found zero records settles with success unless a
\* collaborator failed, and when it settles with success the directory holds
\* exactly one record and the vault a key whose public key is that record's.
C3_RegisterInstalls ==
    [][\A c \in Calls :
          (/\ calls'[c].op = "register"
           /\ Settles(c)
           /\ calls'[c].gotCards
           /\ Len(calls'[c].cardsRes) = 0)
          => (/\ calls'[c].result \in {"ok"} \cup ExternalErrors
              /\ calls'[c].result = "ok" =>
                   /\ Cardinality(cards') = 1
                   /\ localKey' # NoKey
                   /\ \A cd \in cards' : cd.publicKey = extractPublicKey(localKey'))]_vars

C3_Witness ==
    \E c \in Calls :
        /\ calls[c].op = "register" /\ calls[c].result = "ok"
        /\ calls[c].keyRes # NoKey
        /\ localKey = calls[c].kp
        /\ cards = {Card(calls[c].kp, extractPublicKey(calls[c].kp), NoCard)}

\* C4: a register that found one record fails with IdentityAlreadyExistsError
\* and one that found more fails with MultipleCardsError, whatever key it
\* loaded; it has invoked nothing but its two reads.
C4_RegisterRejects ==
    \A c \in Calls :
        (calls[c].op = "register" /\ calls[c].gotCards /\ Len(calls[c].cardsRes) >= 1)
        => (/\ ReadsOnly(c)
            /\ calls[c].gotKey =>
                 /\ calls[c].pc = "done"
                 /\ calls[c].result = IF Len(calls[c].cardsRes) = 1
                                        THEN "IdentityAlreadyExistsError"
                                        ELSE "MultipleCardsError")

C4_Witness ==
    \E d \in Calls, k \in FirstNewKey..LastNewKey :
        /\ calls[d].op = "register" /\ calls[d].result = "IdentityAlreadyExistsError"
        /\ calls[d].cardsRes = <<k>>
        /\ calls[d].keyRes = k
        /\ localKey = k
        /\ cards = {Card(k, extractPublicKey(k), NoCard)}

\* C5: a rotatePrivateKey that found one record and no local key settles with
\* success unless a collaborator failed; on success the directory holds the
\* record of the new key with the old record's id as previousCardId, that record
\* is the only live one, and the vault holds the new key.  A rotatePrivateKey
\* that found one record and a local key fails with PrivateKeyAlreadyExistsError
\* and publishes nothing.
C5_RotateInstalls ==
    [][\A c \in Calls :
          /\ (/\ calls'[c].op = "rotatePrivateKey"
              /\ Settles(c)
              /\ calls'[c].gotCards /\ calls'[c].gotKey
              /\ Len(calls'[c].cardsRes) = 1
              /\ calls'[c].keyRes = NoKey)
             => (/\ calls'[c].result \in {"ok"} \cup ExternalErrors
                 /\ calls'[c].result = "ok" =>
                      /\ Card(calls'[c].kp, extractPublicKey(calls'[c].kp),
                              calls'[c].cardsRes[1]) \in cards'
                      /\ searchCards' = <<calls'[c].kp>>
                      /\ localKey' = calls'[c].kp
                      /\ hasLocalPrivateKey')
          /\ (/\ calls'[c].op = "rotatePrivateKey"
              /\ calls'[c].gotCards /\ calls'[c].gotKey
              /\ Len(calls'[c].cardsRes) = 1
              /\ calls'[c].keyRes # NoKey)
             => (/\ calls'[c].pc = "done"
                 /\ calls'[c].result = "PrivateKeyAlreadyExistsError"
                 /\ "publish" \notin calls'[c].effects)]_vars

C5_Witness ==
    \E d \in Calls, k \in FirstNewKey..LastNewKey :
        /\ calls[d].op = "rotatePrivateKey"
        /\ calls[d].result = "PrivateKeyAlreadyExistsError"
        /\ calls[d].cardsRes = <<k>>
        /\ calls[d].keyRes = k
        /\ localKey = k
        /\ \E cd \in cards : cd.id = k /\ cd.previousCardId # NoCard

\* C6: a rotatePrivateKey whose two reads returned fails with
\* RegisterRequiredError on zero records, with MultipleCardsError on more than
\* one, and with PrivateKeyAlreadyExistsError on one record and a local key, the
\* record count being tested before the key; it has then invoked nothing but
\* its two reads.
C6_RotateRejects ==
    \A c \in Calls :
        (calls[c].op = "rotatePrivateKey" /\ calls[c].gotCards /\ calls[c].gotKey
           /\ (Len(calls[c].cardsRes) # 1 \/ calls[c].keyRes # NoKey))
        => (/\ calls[c].pc = "done"
            /\ ReadsOnly(c)
            /\ calls[c].result =
                 IF Len(calls[c].cardsRes) = 0 THEN "RegisterRequiredError"
                 ELSE IF Len(calls[c].cardsRes) > 1 THEN "MultipleCardsError"
                 ELSE "PrivateKeyAlreadyExistsError")

C6_Witness ==
    \E c \in Calls :
        /\ calls[c].op = "rotatePrivateKey" /\ calls[c].result = "MultipleCardsError"
        /\ calls[c].keyRes # NoKey
        /\ hasLocalPrivateKey
        /\ Cardinality(cards) > 1

\* C7: encrypt, decrypt, encryptFile, decryptFile and backupPrivateKey fail with
\* RegisterRequiredError when the vault returned no key, having invoked nothing
\* but that load: no crypto call, no chunk read, no upload, and no output.
C7_KeyRequired ==
    \A c \in Calls :
        (calls[c].op \in KeyOps /\ calls[c].gotKey /\ calls[c].keyRes = NoKey)
        => (/\ calls[c].pc = "done"
            /\ calls[c].result = "RegisterRequiredError"
            /\ calls[c].effects = {"load"}
            /\ calls[c].out = NoData
            /\ calls[c].outFile = NoFile)

C7_Witness ==
    \E c \in Calls :
        /\ calls[c].op = "backupPrivateKey"
        /\ calls[c].result = "RegisterRequiredError"
        /\ backup # NoBackup
        /\ ~ hasLocalPrivateKey

\* C8: no step of restorePrivateKey changes a vault that holds a key, and the
\* install that finds a key there ends the call with
\* PrivateKeyAlreadyExistsError (or with the vault's own failure).
C8_RestoreKeepsKey ==
    [][\A c \in Calls :
          (calls[c].op = "restorePrivateKey" /\ calls'[c] # calls[c] /\ localKey # NoKey)
          => (/\ localKey' = localKey
              /\ calls[c].pc = "install" =>
                   calls'[c].result \in {"PrivateKeyAlreadyExistsError", "LocalVaultError"})]_vars

C8_Witness ==
    \E c \in Calls :
        /\ calls[c].op = "restorePrivateKey"
        /\ calls[c].result = "PrivateKeyAlreadyExistsError"
        /\ localKey # NoKey
        /\ localKey # calls[c].keyRes

\* C9: a lookupPublicKeys call with an empty list fails with EMPTY_ARRAY and one
\* whose list names an identity twice fails with DUPLICATE_IDENTITIES; neither
\* has called searchCards.
C9_LookupRejectsInput ==
    LET ids == {lk.identities[i] : i \in 1..Len(lk.identities)}
    IN lk.pc # "idle" =>
         /\ Len(lk.identities) = 0 =>
              lk.pc = "done" /\ lk.result = "EMPTY_ARRAY" /\ lk.searches = 0
         /\ Cardinality(ids) < Len(lk.identities) =>
              lk.pc = "done" /\ lk.result = "DUPLICATE_IDENTITIES" /\ lk.searches = 0

C9_Witness ==
    /\ lk.identities = <<"a", "a">>
    /\ lk.result = "DUPLICATE_IDENTITIES"
    /\ \E cd \in lk.dir : cd.identity = "a"

\* C10: a lookupPublicKeys call whose search returned classifies each requested
\* identity by the number of its records in the directory: with one record each
\* it returns the map over exactly the requested identities (the bare key for
\* the scalar form), otherwise it throws one LookupError that holds every
\* requested identity once, with its key or with LookupNotFoundError or
\* MultipleCardsError.  Records of other identities change nothing.
C10_LookupClassifies ==
    LET ids == {lk.identities[i] : i \in 1..Len(lk.identities)}
        recs(i) == {cd \in lk.dir : cd.identity = i}
        entry(i) == IF Cardinality(recs(i)) = 1
                      THEN [publicKey |-> (CHOOSE cd \in recs(i) : TRUE).publicKey, error |-> ""]
                    ELSE IF recs(i) = {}
                      THEN [publicKey |-> <<>>, error |-> "LookupNotFoundError"]
                    ELSE [publicKey |-> <<>>, error |-> "MultipleCardsError"]
        allFound == \A i \in ids : Cardinality(recs(i)) = 1
    IN (lk.pc = "done" /\ lk.searches > 0 /\ lk.result # "DirectoryError") =>
         /\ lk.result = IF ~ allFound THEN "LookupError"
                        ELSE IF lk.scalar THEN "key" ELSE "map"
         /\ lk.result \in {"LookupError", "map"} =>
              /\ DOMAIN lk.value = ids
              /\ \A i \in ids : lk.value[i] = entry(i)
         /\ lk.result = "key" => lk.key = entry(lk.identities[1]).publicKey

C10_Witness ==
    /\ lk.identities = <<"a", "b">>
    /\ lk.result = "LookupError"
    /\ lk.value["a"].error = "LookupNotFoundError"
    /\ lk.value["b"] = [publicKey |-> <<"b", 1>>, error |-> ""]
    /\ \E cd \in lk.dir : cd.identity = "c"
\* ------------------------------------------------------------ C11 .. C20
Count(x, q) == Cardinality({i \in 1..Len(q) : q[i] = x})
Encrypts(c) ==
    /\ calls[c].op \in {"encrypt", "encryptFile"}
    /\ calls[c].gotKey /\ calls[c].keyRes # NoKey

\* C11 as stated: the recipients handed to the cipher by encrypt and encryptFile
\* hold the sender's own public key exactly once and every key the caller gave.
C11_OwnKeyExactlyOnce ==
    \A c \in Calls :
        Encrypts(c) =>
          /\ Count(extractPublicKey(calls[c].keyRes), calls[c].publicKeysArray) = 1
          /\ \A i \in 1..Len(calls[c].arg.keys) :
                 InSeq(calls[c].arg.keys[i], calls[c].publicKeysArray)

\* C11: the recipients handed to the cipher by encrypt and encryptFile hold every
\* key the caller gave, and the sender's own public key once when the caller did
\* not list it and as often as the caller listed it otherwise.  An envelope the
\* session made for another recipient only is decrypted by the same key with no
\* public key argument, giving back the payload.
C11_OwnKeyIncluded ==
    \A c \in Calls :
        /\ Encrypts(c) =>
              LET own == extractPublicKey(calls[c].keyRes)
                  listed == Count(own, calls[c].arg.keys)
              IN /\ Count(own, calls[c].publicKeysArray) = IF listed = 0 THEN 1 ELSE listed
                 /\ \A i \in 1..Len(calls[c].arg.keys) :
                        InSeq(calls[c].arg.keys[i], calls[c].publicKeysArray)
                 /\ (calls[c].op = "encrypt" /\ calls[c].pc = "done")
                      => calls[c].out.rcpts = calls[c].publicKeysArray
        /\ \A m \in Messages :
              (/\ calls[c].op = "decrypt" /\ calls[c].gotKey /\ calls[c].keyRes # NoKey
               /\ calls[c].pk = NoKey
               /\ calls[c].msg = EncryptOut(m, calls[c].keyRes, PubArg("key", <<OtherPub>>)))
              => (calls[c].pc = "done" /\ calls[c].result = "ok" /\ calls[c].out = m)

C11_Witness ==
    \E c \in Calls :
        /\ calls[c].op = "encryptFile" /\ calls[c].pc = "encrypt"
        /\ calls[c].arg = PubArg("key", <<OtherPub>>)
        /\ "cipher" \in calls[c].made
        /\ calls[c].publicKeysArray = <<OtherPub, extractPublicKey(calls[c].keyRes)>>

\* C12: decrypt, given an envelope that encrypt made of payload m for a
\* non-empty recipient set without the sender and given the sender's public key,
\* in a session holding the key of the sender or of a recipient, returns m in the
\* representation m was given in.
RoundTripArgs == PubArgs \cup {PubArg("key", <<extractPublicKey(1)>>)}

C12_RoundTrip ==
    \A c \in Calls, m \in Messages, k \in {1, OtherKey}, a \in RoundTripArgs :
        (/\ calls[c].op = "decrypt" /\ calls[c].gotKey /\ calls[c].keyRes # NoKey
         /\ Len(a.keys) > 0 /\ ~ InSeq(extractPublicKey(k), a.keys)
         /\ calls[c].msg = EncryptOut(m, k, a)
         /\ calls[c].pk = extractPublicKey(k)
         /\ (calls[c].keyRes = k \/ InSeq(extractPublicKey(calls[c].keyRes), a.keys)))
        => (/\ calls[c].pc = "done" /\ calls[c].result = "ok"
            /\ calls[c].out = m)

C12_Witness ==
    \E c \in Calls :
        /\ calls[c].op = "decrypt" /\ calls[c].result = "ok"
        /\ calls[c].msg = EncryptOut(Payload("utf8", 1), OtherKey,
                                     PubArg("key", <<extractPublicKey(1)>>))
        /\ calls[c].msg.form = "base64"
        /\ calls[c].pk = OtherPub
        /\ calls[c].keyRes = 1
        /\ calls[c].out = Payload("utf8", 1)

\* C13: decrypt returns a payload only for an envelope whose signature is that
\* of the expected signer (the given public key, or the session's own when none
\* is given) over the content it carries; an envelope it can open whose
\* signature is another key's, or whose content was changed, ends the call with
\* IntegrityCheckFailedError and no payload.
ExpectedSigner(c) ==
    IF calls[c].pk = NoKey THEN extractPublicKey(calls[c].keyRes) ELSE calls[c].pk
Verifies(c) ==
    /\ extractPublicKey(calls[c].msg.signer) = ExpectedSigner(c)
    /\ calls[c].msg.sealed = calls[c].msg.body

C13_DecryptVerifies ==
    \A c \in Calls :
        calls[c].op = "decrypt" =>
          /\ calls[c].out # NoData => (calls[c].result = "ok" /\ Verifies(c))
          /\ calls[c].result = "ok" => calls[c].out # NoData
          /\ (/\ calls[c].gotKey /\ calls[c].keyRes # NoKey
              /\ InSeq(extractPublicKey(calls[c].keyRes), calls[c].msg.rcpts)
              /\ ~ Verifies(c))
             => (calls[c].pc = "done" /\ calls[c].result = "IntegrityCheckFailedError")

C13_Witness ==
    \E c \in Calls, e \in Sent :
        /\ calls[c].op = "decrypt" /\ calls[c].result = "IntegrityCheckFailedError"
        /\ calls[c].msg = Tampered(e)
        /\ e.signer = OtherKey
        /\ calls[c].pk = OtherPub
        /\ calls[c].keyRes = 1
        /\ calls[c].out = NoData

\* C14: decryptFile settles with success only when the verifier has been fed the
\* whole plaintext blob and has then answered true for the expected signer's
\* public key (the given one, or the session's own); when the verifier answers
\* false the call ends with IntegrityCheckFailedError.
FedWhole(r) ==
    \E i \in 1..Len(r.log) :
        /\ r.log[i] = Event("verifier.update", r.file.size - 1)
        /\ i < Len(r.log)

C14_VerifiedBeforeReturn ==
    \A c \in Calls :
        calls[c].op = "decryptFile" =>
          /\ (calls[c].pc = "done" /\ calls[c].result = "ok") =>
                /\ calls[c].isVerified = "true"
                /\ extractPublicKey(calls[c].file.signer) = ExpectedSigner(c)
                /\ calls[c].log[Len(calls[c].log)] = Event("verifier.verify", ExpectedSigner(c))
                /\ FedWhole(calls[c])
                /\ calls[c].outFile.size = calls[c].file.size - 1
          /\ calls[c].isVerified = "false" =>
                /\ calls[c].pc = "done"
                /\ calls[c].result = "IntegrityCheckFailedError"
                /\ calls[c].outFile = NoFile

C14_Witness ==
    \E c \in Calls :
        /\ calls[c].op = "decryptFile"
        /\ calls[c].result = "IntegrityCheckFailedError"
        /\ calls[c].isVerified = "false"
        /\ calls[c].pk = NoKey
        /\ calls[c].file.signer = OtherKey
        /\ FedWhole(calls[c])

\* C15: in the log of an encryptFile every call to the signer and every Signing
\* snapshot comes before every call to the cipher and every Encrypting snapshot,
\* and the cipher is created only after the signer took the last chunk and
\* signed; in the log of a decryptFile the same holds of the decipher and the
\* verifier, the decipher being finalized first.  The chunks of one pass go to
\* its streaming object in the order of their offsets.
SignerEvs == {"signer.create", "signer.update", "signer.sign", "Signing"}
CipherEvs == {"cipher.create", "cipher.start", "cipher.update", "cipher.final", "Encrypting"}
DecipherEvs == {"decipher.create", "decipher.update", "decipher.final",
                "decipher.getSignature", "decipher.dispose", "Decrypting"}
VerifierEvs == {"verifier.create", "verifier.update", "verifier.verify", "Verifying"}
UpdateEvs == {"signer.update", "cipher.update", "decipher.update", "verifier.update"}

Before(log, first, second) ==
    \A i, j \in 1..Len(log) : (log[i].ev \in first /\ log[j].ev \in second) => i < j
Precedes(log, e, second) ==
    \A j \in 1..Len(log) : log[j].ev \in second => \E i \in 1..(j - 1) : log[i] = e

C15_PassesInOrder ==
    \A c \in Calls :
        LET r == calls[c]
        IN /\ Before(r.log, SignerEvs, CipherEvs)
           /\ Precedes(r.log, Event("signer.update", r.file.size), CipherEvs)
           /\ Precedes(r.log, Event("signer.sign", r.keyRes), CipherEvs)
           /\ Before(r.log, DecipherEvs, VerifierEvs)
           /\ Precedes(r.log, Event("decipher.update", r.file.size), VerifierEvs)
           /\ Precedes(r.log, Event("decipher.final", 0), VerifierEvs)
           /\ \A i, j \in 1..Len(r.log) :
                 (i < j /\ r.log[i].ev \in UpdateEvs /\ r.log[j].ev = r.log[i].ev)
                 => r.log[i].arg < r.log[j].arg

C15_Witness ==
    \E c \in Calls :
        /\ calls[c].op = "encryptFile" /\ calls[c].result = "ok"
        /\ calls[c].file.size > ChunkSize
        /\ \E i, j \in 1..Len(calls[c].log) :
              /\ i < j
              /\ calls[c].log[i] = Event("signer.update", calls[c].file.size)
              /\ calls[c].log[j] = Event("cipher.update", ChunkSize)

\* C16: the offsets of the progress snapshots of one phase never decrease, and
\* once the phase's pass has finished its last snapshot reports the size of the
\* blob the pass read: the given file for Signing, Encrypting and Decrypting,
\* the plaintext blob for Verifying.
Phases == {"Signing", "Encrypting", "Decrypting", "Verifying"}
PhaseEnd(ph) ==
    CASE ph = "Signing" -> "signer.sign"
      [] ph = "Encrypting" -> "cipher.final"
      [] ph = "Decrypting" -> "decipher.final"
      [] ph = "Verifying" -> "verifier.verify"
PhaseBlobSize(r, ph) == IF ph = "Verifying" THEN r.file.size - 1 ELSE r.file.size

C16_ProgressOffsets ==
    \A c \in Calls, ph \in Phases :
        LET log == calls[c].log
        IN /\ \A i, j \in 1..Len(log) :
                 (i < j /\ log[i].ev = ph /\ log[j].ev = ph) => log[i].arg <= log[j].arg
           /\ \A e \in 1..Len(log) :
                 log[e].ev = PhaseEnd(ph) =>
                   \E i \in 1..(e - 1) :
                       /\ log[i] = Event(ph, PhaseBlobSize(calls[c], ph))
                       /\ \A j \in (i + 1)..Len(log) : log[j].ev # ph

C16_Witness ==
    \E c \in Calls :
        /\ calls[c].op = "decryptFile" /\ calls[c].result = "ok"
        /\ calls[c].file.size % ChunkSize # 0
        /\ calls[c].file.size > ChunkSize
        /\ \E i, j, k \in 1..Len(calls[c].log) :
              /\ i < j /\ j < k
              /\ calls[c].log[i] = Event("Decrypting", ChunkSize)
              /\ calls[c].log[j] = Event("Decrypting", calls[c].file.size)
              /\ calls[c].log[k] = Event("Verifying", calls[c].file.size - 1)

\* C17: when an encryptFile or decryptFile has settled, every cipher and
\* decipher it created has been disposed.
C17_CiphersReleased ==
    \A c \in Calls :
        (calls[c].op \in {"encryptFile", "decryptFile"} /\ calls[c].pc = "done")
        => (calls[c].made \cap {"cipher", "decipher"}) \subseteq calls[c].freed

\* C18: an encryptFile or decryptFile whose caller raised the cancellation signal
\* while a pass was running does not settle with success and a blob.
C18_CancelledNeverResolves ==
    \A c \in Calls :
        calls[c].cancelled => ~ (calls[c].pc = "done" /\ calls[c].result = "ok")

\* C19: no step of the session's operations takes a directory with at most one
\* live record of the identity to one with more.
C19_OneLiveRecord ==
    [][Cardinality(LiveCards) <= 1 => Cardinality(LiveCards') <= 1]_vars

C19_Witness ==
    \E c \in Calls :
        /\ calls[c].op = "rotatePrivateKey" /\ calls[c].pc = "done"
        /\ calls[c].result \in {"LocalVaultError", "KeyEntryAlreadyExistsError"}
        /\ "save" \in calls[c].effects
        /\ Cardinality(cards) > 1
        /\ LiveCards = {Card(calls[c].kp, extractPublicKey(calls[c].kp), calls[c].cardsRes[1])}

\* C20: while a register, rotatePrivateKey, restorePrivateKey or cleanup call is
\* suspended between two of its steps, no step of another such call changes the
\* local key vault.
KeyWriters == {"register", "rotatePrivateKey", "restorePrivateKey", "cleanup"}

C20_NoInterleavedKeyChange ==
    [][\A c, d \in Calls :
          (/\ c # d
           /\ calls[c].op \in KeyWriters /\ InFlight(c)
           /\ calls'[c] = calls[c]
           /\ calls[d].op \in KeyWriters /\ InFlight(d)
           /\ calls'[d] # calls[d])
          => localKey' = localKey]_vars

\* ------------------------------------------------------------ C21 .. C26
\* C21: a register that found zero records and a local key deletes that key
\* before it generates a key pair and calls publish, so the step that generates
\* the pair leaves the vault empty; a register that settles with success leaves
\* the generated key in the vault, not the one it loaded; a register that found
\* one record or more never calls the delete.
C21_StaleKeyDiscarded ==
    [][\A c \in Calls :
          LET r == calls'[c]
          IN (r.op = "register" /\ r.gotCards /\ r.gotKey) =>
               /\ (Len(r.cardsRes) = 0 /\ r.keyRes # NoKey) =>
                     /\ "reset" \in r.effects
                     /\ (calls[c].kp = NoKey /\ r.kp # NoKey) =>
                           (calls[c].pc = "reset" /\ localKey' = NoKey)
               /\ (Settles(c) /\ r.result = "ok") =>
                     (localKey' = r.kp /\ r.kp # r.keyRes /\ r.kp # NoKey)
               /\ Len(r.cardsRes) >= 1 => "reset" \notin r.effects]_vars

C21_Witness ==
    \E c \in Calls :
        /\ calls[c].op = "register" /\ calls[c].result = "ok"
        /\ calls[c].keyRes = 1
        /\ {"reset", "publish", "save"} \subseteq calls[c].effects
        /\ localKey = calls[c].kp
        /\ localKey # 1

\* C22: a freshly generated key is in the local vault only when a record with
\* its public key is in the directory; a register or rotatePrivateKey that ends
\* after its publish without having saved leaves one live record and an empty
\* vault; a register that then finds that record and no key fails with
\* IdentityAlreadyExistsError, and a rotatePrivateKey that finds them settles with
\* success unless a collaborator fails, leaving its own record the live one and
\* its key in the vault.
C22_PublishBeforePersist ==
    [][/\ localKey' \in FirstNewKey..LastNewKey =>
             \E cd \in cards' : cd.publicKey = extractPublicKey(localKey')
       /\ \A c \in Calls :
             LET r == calls'[c]
                 keyLost == r.gotCards /\ r.gotKey /\ Len(r.cardsRes) = 1 /\ r.keyRes = NoKey
             IN /\ (r.op \in LifecycleOps /\ Settles(c) /\ calls[c].pc = "save"
                      /\ r.result # "ok")
                     => (Cardinality(LiveCards') = 1 /\ localKey' = NoKey)
                /\ (r.op = "register" /\ keyLost)
                     => (r.pc = "done" /\ r.result = "IdentityAlreadyExistsError")
                /\ (r.op = "rotatePrivateKey" /\ keyLost /\ Settles(c))
                     => /\ r.result \in {"ok"} \cup ExternalErrors
                        /\ r.result = "ok" =>
                              /\ localKey' = r.kp
                              /\ LiveCards' = {Card(r.kp, extractPublicKey(r.kp),
                                                    r.cardsRes[1])}]_vars

C24_RejectionKeepsGuard ==
    [][\A d \in Calls :
          (Holder(d) /\ calls'[d].pc \notin {"idle", "done"})
          => (/\ inProcess /\ inProcess'
              /\ \A c \in Calls \ {d} :
                    (/\ calls[c].pc = "idle" /\ calls'[c].pc # "idle"
                     /\ calls'[c].op \in LifecycleOps)
                    => (/\ calls'[c].result = "IllegalInvocationError"
                        /\ calls'[d] = calls[d]
                        /\ cards' = cards /\ localKey' = localKey))]_vars

C24_Witness ==
    \E c, d \in Calls :
        /\ calls[d].op = "rotatePrivateKey" /\ calls[d].pc = "save"
        /\ calls[c].op = "register"
        /\ calls[c].result = "IllegalInvocationError"
        /\ inProcess

\* C25: when a register that found no record ends because its publish failed,
\* the directory holds no record more than before and the local vault holds no
\* key, whatever it held when the call began.
C25_FailedPublishLeavesNothing ==
    [][\A c \in Calls :
          (/\ calls[c].op = "register" /\ calls[c].pc = "publish"
           /\ Len(calls[c].cardsRes) = 0
           /\ Settles(c) /\ calls'[c].result # "ok")
          => (cards' = cards /\ LiveCards' = {} /\ localKey' = NoKey)]_vars

\* C26: the file an encryptFile or a decryptFile returns is of the kind of its
\* input, a File for a named File and a Blob for a Blob, and declares the
\* input's content type.
C26_KindAndMetadataKept ==
    \A c \in Calls :
        (/\ calls[c].op \in {"encryptFile", "decryptFile"}
         /\ calls[c].pc = "done" /\ calls[c].result = "ok")
        => (/\ calls[c].outFile.named = calls[c].file.named
            /\ calls[c].outFile.type = calls[c].file.type)

====
